---- MODULE Spec2Model ----
(***************************************************************************)
(* A model of kripke (src/index.js): password-derived envelope encryption  *)
(* with an optional HMAC signature, in its instance form (new Kripke) and  *)
(* its static form (Kripke.encrypt / Kripke.decrypt).                      *)
(*                                                                         *)
(* The cryptographic collaborators (node's crypto module) are modelled     *)
(* symbolically: a derived key, a cipher text and an HMAC digest are terms *)
(* that record what they were computed from, so two of them are equal only *)
(* when they were computed from equal inputs.                              *)
(*                                                                         *)
(* Strings on the wire are sequences of characters.  A character is        *)
(*   <<s>>              a literal character that is not base64 ("$", "!"), *)
(*   <<"b64", u>>       the base64 text of the buffer unit u,              *)
(*   <<"b64", u, "~">>  another spelling that base64-decodes to u as well  *)
(*                      (node's decoder ignores the unused low bits and    *)
(*                      the padding of the last group).                    *)
(* A Buffer is a sequence of units; a unit is                              *)
(*   <<"r", n>>                     the n-th draw of crypto.randomBytes(16)*)
(*   <<"enc", alg, key, iv, bytes>> the output of a cipher,                *)
(*   <<"hmac", alg, key, msg>>      an HMAC digest.                        *)
(***************************************************************************)
EXTENDS Integers, Sequences, FiniteSets, TLC

VARIABLES
  opts,      \* the caller's options object (shared, mutable)
  inst,      \* the instance `k` built by new Kripke(options), or NoInstance
  saved,     \* the token the caller stored from the latest encrypt callback
  inflight,  \* the calls whose pbkdf2 has been queued and has not completed
  last,      \* the call that just ended (threw, or ran its callback), until the
             \* caller has dealt with its outcome; Idle otherwise
  rng        \* the number of crypto.randomBytes(16) draws made so far

vars == <<opts, inst, saved, inflight, last, rng>>

(***************************************************************************)
(* Bounds                                                                  *)
(***************************************************************************)
MaxDraws == 2      \* random draws available for each call that may be in
                   \* flight (two per encrypt call)

\* the places for calls whose key derivation is in progress: one call at a
\* time, or two
MaxLen == 2        \* longest buffer handed to compareBuffers on its own
OneSlot == {1}
TwoSlots == {1, 2}
Slots == DOMAIN inflight

(***************************************************************************)
(* JavaScript values                                                       *)
(***************************************************************************)
Undef == "undefined"
\* !v for a string-valued option: undefined and '' are falsy
Truthy(v) == v # Undef /\ v # ""

defaultIterations == 131072

\* a callback argument: <<>> is undefined, <<x>> is the value x
\* arguments that are not text: null and an empty Buffer passed as plaintext
\* (sequences of code units), null and a non-string passed as token
\* (sequences of characters)
NullText == <<"null">>
EmptyBuffer == <<"Buffer(0)">>
NullToken == << <<"null">> >>
NotAString == << <<"object">> >>

\* the callback's type left unchecked
IsFunctionUnchecked(callback) == TRUE

\* typeof callback === 'function'
IsFunction(callback) == callback = "function"

\* !plainText alone: an empty Buffer is truthy
FalsyPlainText(plainText) == plainText = <<>> \/ plainText = NullText

\* !plainText || plainText.length === 0
InvalidPlainText(plainText) ==
  plainText = <<>> \/ plainText = NullText \/ plainText = EmptyBuffer

\* !encodedText || typeof encodedText !== 'string'
InvalidCipherText(encodedText) ==
  encodedText = <<>> \/ encodedText = NullToken \/ encodedText = NotAString

\* options.key left unchecked
KeyUnchecked(options) == FALSE

\* !options.key
KeyMissing(options) == ~Truthy(options.key)

NoResult == <<>>
Some(x) == <<x>>

ErrNoCallback   == "No callback provided"
ErrNoKey        == "You must provide a \"key\""
ErrPlainText    == "Invalid plain text data"
ErrCipherText   == "Invalid cipher text"
ErrEncodedText  == "Encoded text is invalid"
ErrKeyRequired  == "An \"hmacKey\" is required to verify the HMAC signature of the cipher text"
ErrNoSignature  == "An \"hmacKey\" was provided but the cipher text does not include an HMAC signature"
ErrHmacFailed   == "HMAC signature verification failed"
\* errors raised by the collaborators (node's Buffer and crypto)
ErrBufferArg    == "First argument must be a string, Buffer, ArrayBuffer, Array, or array-like object"
ErrDigest       == "Digest method not supported"
ErrUnknownCipher == "Unknown cipher"
ErrKeyLength    == "Invalid key length"
ErrIvLength     == "Invalid IV length"
ErrBadDecrypt   == "bad decrypt"
ErrKdf          == "PBKDF2 error"

(***************************************************************************)
(* Strings: split, lastIndexOf, substr                                     *)
(***************************************************************************)
Dollar == <<"$">>
Bang == <<"!">>

RECURSIVE SplitAcc(_, _, _)
SplitAcc(s, i, acc) ==
  IF i > Len(s) THEN acc
  ELSE IF s[i] = Dollar THEN SplitAcc(s, i + 1, Append(acc, <<>>))
  ELSE SplitAcc(s, i + 1, [acc EXCEPT ![Len(acc)] = Append(@, s[i])])

\* s.split("$"): the fields between the delimiters ("" splits into one field)
Split(s) == SplitAcc(s, 1, << <<>> >>)

\* s.lastIndexOf("$"), 1-based; 0 when there is none
LastIndexOfDollar(s) ==
  LET D == {i \in 1..Len(s) : s[i] = Dollar}
  IN IF D = {} THEN 0 ELSE CHOOSE i \in D : \A j \in D : j <= i

\* s.substr(0, s.lastIndexOf("$"))
BeforeLastDollar(s) == SubSeq(s, 1, LastIndexOfDollar(s) - 1)

(***************************************************************************)
(* Buffers: base64 and utf8                                                *)
(***************************************************************************)
\* buf.toString('base64'), and a stream read with setEncoding('base64')
B64Encode(buf) == [i \in 1..Len(buf) |-> <<"b64", buf[i]>>]

IsB64Char(ch) == Len(ch) >= 2

RECURSIVE B64DecodeFrom(_, _)
B64DecodeFrom(s, i) ==
  IF i > Len(s) THEN <<>>
  ELSE IF IsB64Char(s[i]) THEN <<s[i][2]>> \o B64DecodeFrom(s, i + 1)
  ELSE B64DecodeFrom(s, i + 1)

\* new Buffer(s, 'base64'): characters outside the alphabet are skipped, and
\* both spellings of a unit decode to it
B64Decode(s) == B64DecodeFrom(s, 1)

\* the UTF-8 bytes of one UTF-16 code unit of a string; an unpaired
\* surrogate is written as U+FFFD
Utf8Unit(u) ==
  CASE u = "h" -> <<104>>
    [] u = "i" -> <<105>>
    [] u = "?" -> <<63>>
    [] OTHER -> <<239, 191, 189>>   \* "uD800" (unpaired surrogate), "uFFFD"

RECURSIVE Utf8EncodeFrom(_, _)
Utf8EncodeFrom(p, i) ==
  IF i > Len(p) THEN <<>> ELSE Utf8Unit(p[i]) \o Utf8EncodeFrom(p, i + 1)

\* cipher.write(plainText): a string is written as its UTF-8 bytes
Utf8Encode(p) == Utf8EncodeFrom(p, 1)

RECURSIVE Utf8DecodeFrom(_, _)
Utf8DecodeFrom(b, i) ==
  IF i > Len(b) THEN <<>>
  ELSE IF b[i] = 104 THEN <<"h">> \o Utf8DecodeFrom(b, i + 1)
  ELSE IF b[i] = 105 THEN <<"i">> \o Utf8DecodeFrom(b, i + 1)
  ELSE IF b[i] = 63 THEN <<"?">> \o Utf8DecodeFrom(b, i + 1)
  ELSE IF i + 2 <= Len(b) /\ b[i] = 239 /\ b[i + 1] = 191 /\ b[i + 2] = 189
       THEN <<"uFFFD">> \o Utf8DecodeFrom(b, i + 3)
  ELSE <<"uFFFD">> \o Utf8DecodeFrom(b, i + 1)

\* decipher.setEncoding('utf8'); decipher.read()
\* decipher.setEncoding('ucs2'): every two bytes read as one UTF-16 unit
Ucs2Decode(b) == [i \in 1..(Len(b) \div 2) |-> "uXXXX"]

Utf8Decode(b) == Utf8DecodeFrom(b, 1)

(***************************************************************************)
(* The collaborators: crypto.pbkdf2, createCipheriv, createDecipheriv,     *)
(* createHmac                                                              *)
(***************************************************************************)
SupportedDigest(d) == d \in {"SHA256"}
SupportedCipher(alg) == alg \in {"AES-256-CBC", "AES-128-CBC"}

\* the key length in bytes a cipher demands
CipherKeyLength(alg) == IF alg = "AES-128-CBC" THEN 16 ELSE 32

\* the key crypto.pbkdf2 derives: a function of exactly its five arguments
Pbkdf2(key, salt, iterations, keylen, digest) ==
  <<"dk", key, salt, iterations, keylen, digest>>

DerivedKeyLength(dk) == dk[5]

\* what createCipheriv / createDecipheriv throws, or Undef
CipherInitError(alg, dk, iv) ==
  IF ~SupportedCipher(alg) THEN ErrUnknownCipher
  ELSE IF DerivedKeyLength(dk) # CipherKeyLength(alg) THEN ErrKeyLength
  ELSE IF Len(iv) # 1 THEN ErrIvLength
  ELSE Undef

\* cipher.write(bytes); cipher.end(); the cipher's whole output
CipherRun(alg, dk, iv, bytes) == << <<"enc", alg, dk, iv, bytes>> >>

\* ct is what CipherRun produced under this algorithm, key and iv
Deciphers(alg, dk, iv, ct) ==
  /\ Len(ct) = 1
  /\ Len(ct[1]) = 5
  /\ ct[1][2] = alg
  /\ ct[1][3] = dk
  /\ ct[1][4] = iv

\* decipher.write(ct); decipher.end(); decipher.read(): the plain bytes, or a
\* thrown error.  Under another key or iv, or on other bytes, the padding
\* check fails (luck = "bad") or passes on garbage (luck = "garbage").
DecipherRun(alg, dk, iv, ct, luck) ==
  IF Deciphers(alg, dk, iv, ct) THEN [threw |-> Undef, bytes |-> ct[1][5]]
  ELSE IF luck = "garbage" /\ Len(ct) >= 1 THEN [threw |-> Undef, bytes |-> <<63>>]
  ELSE [threw |-> ErrBadDecrypt, bytes |-> <<>>]

\* the digest of createHmac(alg, key) over msg, as a Buffer
Hmac(alg, key, msg) == << <<"hmac", alg, key, msg>> >>

(***************************************************************************)
(* compareBuffers (src/index.js:355)                                       *)
(***************************************************************************)
RECURSIVE XorAccumulate(_, _, _, _)
XorAccumulate(buffer1, buffer2, i, val) ==
  IF i > Len(buffer1) THEN val
  ELSE XorAccumulate(buffer1, buffer2, i + 1,
                     IF buffer1[i] = buffer2[i] THEN val ELSE 1)

compareBuffers(buffer1, buffer2) ==
  IF Len(buffer1) # Len(buffer2) THEN FALSE
  ELSE XorAccumulate(buffer1, buffer2, 1, 0) = 0

(***************************************************************************)
(* Configuration                                                           *)
(***************************************************************************)
\* An options object: string fields hold Undef when absent, numeric fields 0.
BaseOptions ==
  [key |-> "K", hmacKey |-> Undef, algorithm |-> Undef,
   hmacAlgorithm |-> Undef, iterations |-> 10000, keyLength |-> 0]

\* the options objects a run may start from
InitialOptions ==
  { BaseOptions,
    [BaseOptions EXCEPT !.algorithm = "AES-128-CBC", !.keyLength = 128],
    [BaseOptions EXCEPT !.keyLength = 128],
    [BaseOptions EXCEPT !.hmacAlgorithm = "WHIRL", !.iterations = 0],
    [BaseOptions EXCEPT !.key = Undef] }

HmacKeys == {"H1"}

NoInstance ==
  [key |-> Undef, hmacKey |-> Undef, iterations |-> 0, hmacAlgorithm |-> Undef,
   keyLength |-> 0, algorithm |-> Undef]

\* function Kripke (options): the private variables and this.algorithm
Kripke(options) ==
  [key |-> options.key,
   hmacKey |-> options.hmacKey,
   iterations |-> IF options.iterations # 0 THEN options.iterations
                  ELSE defaultIterations,
   hmacAlgorithm |-> IF Truthy(options.hmacAlgorithm) THEN options.hmacAlgorithm
                     ELSE "SHA256",
   keyLength |-> IF options.keyLength \in {128, 192, 256}
                 THEN options.keyLength \div 8 ELSE 32,
   algorithm |-> IF Truthy(options.algorithm) THEN options.algorithm
                 ELSE "AES-256-CBC"]

\* the defaults Kripke.encrypt and Kripke.decrypt write into options
StaticDefaults(options) ==
  [options EXCEPT
     !.algorithm = IF Truthy(@) THEN @ ELSE "AES-256-CBC",
     !.hmacAlgorithm = IF Truthy(@) THEN @ ELSE "SHA256",
     !.iterations = IF @ # 0 THEN @ ELSE defaultIterations]

\* the key length the static functions pass to crypto.pbkdf2
StaticKeyLength == 32

\* the configuration a static call works with, in the shape of an instance
StaticConfig(options) ==
  LET o == StaticDefaults(options)
  IN [key |-> o.key, hmacKey |-> o.hmacKey, iterations |-> o.iterations,
      hmacAlgorithm |-> o.hmacAlgorithm, keyLength |-> StaticKeyLength,
      algorithm |-> o.algorithm]

(***************************************************************************)
(* The instance's closures: sign and verify                                *)
(***************************************************************************)
\* sign with the signature appended without its '$'
signNoDelimiter(I, data) ==
  IF Truthy(I.hmacKey) /\ SupportedDigest(I.hmacAlgorithm)
  THEN [threw |-> Undef,
        ret |-> data \o B64Encode(Hmac(I.hmacAlgorithm, I.hmacKey, data))]
  ELSE [threw |-> IF Truthy(I.hmacKey) THEN ErrDigest ELSE Undef, ret |-> data]

\* sign reading hmacKey from the caller's options object when it runs
signFromOptions(I, data) ==
  LET hmacKey == opts.hmacKey
  IN IF Truthy(hmacKey)
     THEN IF ~SupportedDigest(I.hmacAlgorithm)
          THEN [threw |-> ErrDigest, ret |-> data]
          ELSE [threw |-> Undef,
                ret |-> data \o <<Dollar>>
                          \o B64Encode(Hmac(I.hmacAlgorithm, hmacKey, data))]
     ELSE [threw |-> Undef, ret |-> data]

\* this.sign(data): [threw, ret]
sign(I, data) ==
  IF Truthy(I.hmacKey)
  THEN IF ~SupportedDigest(I.hmacAlgorithm)
       THEN [threw |-> ErrDigest, ret |-> data]
       ELSE [threw |-> Undef,
             ret |-> data \o <<Dollar>>
                       \o B64Encode(Hmac(I.hmacAlgorithm, I.hmacKey, data))]
  ELSE [threw |-> Undef, ret |-> data]

\* the guard written as `hmacKey` alone
RequiredByKeyOnly(hmacKey, parts) == Truthy(hmacKey)

\* the guard written as `parts.length === 4` alone
RequiredBySignatureOnly(hmacKey, parts) == Len(parts) = 4

\* the guard of the verification: hmacKey || parts.length === 4
VerificationRequired(hmacKey, parts) == Truthy(hmacKey) \/ Len(parts) = 4

\* the guard of the second policy error: parts.length < 4
SignatureMissing(parts) == Len(parts) < 4

\* the signed text rebuilt from the decoded fields instead of taken from the
\* token as it was received
SignedTextReencoded(encodedData) ==
  LET parts == Split(encodedData)
  IN B64Encode(B64Decode(parts[1])) \o <<Dollar>>
       \o B64Encode(B64Decode(parts[2])) \o <<Dollar>>
       \o B64Encode(B64Decode(parts[3]))

\* the string both forms hand to the HMAC when they verify
SignedText(encodedData) == BeforeLastDollar(encodedData)

\* this.verify(encodedData): [threw, ret, required]; required records whether
\* the guard was entered
verify(I, encodedData) ==
  LET parts == Split(encodedData)
  IN IF VerificationRequired(I.hmacKey, parts)
     THEN IF ~Truthy(I.hmacKey)
          THEN [threw |-> ErrKeyRequired, ret |-> FALSE, required |-> TRUE]
          ELSE IF SignatureMissing(parts)
          THEN [threw |-> ErrNoSignature, ret |-> FALSE, required |-> TRUE]
          ELSE IF ~SupportedDigest(I.hmacAlgorithm)
          THEN [threw |-> ErrDigest, ret |-> FALSE, required |-> TRUE]
          ELSE [threw |-> Undef,
                ret |-> compareBuffers(
                          Hmac(I.hmacAlgorithm, I.hmacKey,
                               SignedText(encodedData)),
                          B64Decode(parts[4])),
                required |-> TRUE]
     ELSE [threw |-> Undef, ret |-> TRUE, required |-> FALSE]

\* how a verification ended, for the record of a call
VerifyOutcome(v) ==
  IF ~v.required THEN "skipped"
  ELSE IF v.threw \in {ErrKeyRequired, ErrNoSignature} THEN "policy"
  ELSE IF v.threw # Undef THEN "raised"
  ELSE IF v.ret THEN "true" ELSE "false"

(***************************************************************************)
(* Calls                                                                   *)
(***************************************************************************)
NoSaved == [tok |-> <<>>, p |-> <<>>, cfg |-> NoInstance, form |-> "none"]

\* The record of one call.  kind: "iEnc", "iDec" (instance), "sEnc", "sDec"
\* (static).  how and origin say where a decrypt call's token came from;
\* threw is the exception the call threw synchronously; verify, kdf and
\* cipher say how far the call got; cb counts the callback's invocations,
\* err and result are the arguments of the latest one; callback is the
\* type of the callback argument.
NewCall(kind, input, how, origin, cfg) ==
  [kind |-> kind, input |-> input, how |-> how, origin |-> origin, cfg |-> cfg,
   threw |-> Undef, verify |-> "none", kdf |-> "none", cipher |-> "none",
   cb |-> 0, err |-> Undef, result |-> NoResult,
   salt |-> <<>>, iv |-> <<>>, dk |-> <<>>, callback |-> "function"]

Idle == NewCall("idle", <<>>, "none", NoSaved, NoInstance)

\* callback(err, result)
Callback(call, err, result) ==
  [call EXCEPT !.cb = @ + 1, !.err = err, !.result = result]

\* a Buffer of sixteen zero bytes in place of the random draw
ZeroBytes(n) == << <<"r", 0>> >>

\* new Buffer(crypto.randomBytes(16)): the draw after n earlier ones
RandomBytes(n) == << <<"r", n + 1>> >>

\* Kripke.prototype.encrypt up to its return: [call, rng]
InstEncryptCall(I, call, n) ==
  IF ~IsFunction(call.callback)
  THEN [call |-> [call EXCEPT !.threw = ErrNoCallback], rng |-> n]
  ELSE IF InvalidPlainText(call.input)
  THEN [call |-> [call EXCEPT !.threw = ErrPlainText], rng |-> n]
  ELSE LET salt == RandomBytes(n)
       IN IF ~SupportedDigest(I.hmacAlgorithm)
          THEN [call |-> [call EXCEPT !.threw = ErrDigest, !.salt = salt],
                rng |-> n + 1]
          ELSE [call |-> [call EXCEPT
                            !.kdf = "pending", !.salt = salt,
                            !.dk = Pbkdf2(I.key, salt, I.iterations,
                                          I.keyLength, I.hmacAlgorithm)],
                rng |-> n + 1]

\* the callback Kripke.prototype.encrypt hands to generateDerivedKey; self
\* is the instance as it is when the callback runs (self.algorithm is read
\* then), call.cfg holds the private variables of its closures
InstEncryptDone(self, call, outcome, n) ==
  LET I == call.cfg
      iv == RandomBytes(n)
      initErr == CipherInitError(self.algorithm, call.dk, iv)
      cipherText == B64Encode(CipherRun(self.algorithm, call.dk, iv,
                                        Utf8Encode(call.input)))
      signed == sign(I, cipherText \o <<Dollar>> \o B64Encode(iv)
                          \o <<Dollar>> \o B64Encode(call.salt))
  IN IF outcome = "err"
     THEN [call |-> Callback([call EXCEPT !.kdf = "err"], ErrKdf, NoResult),
           rng |-> n]
     ELSE IF initErr # Undef
     THEN [call |-> Callback([call EXCEPT !.kdf = "ok", !.cipher = "threw",
                                          !.iv = iv], initErr, NoResult),
           rng |-> n + 1]
     ELSE IF signed.threw # Undef
     THEN [call |-> Callback([call EXCEPT !.kdf = "ok", !.cipher = "ok",
                                          !.iv = iv], signed.threw, NoResult),
           rng |-> n + 1]
     ELSE [call |-> Callback([call EXCEPT !.kdf = "ok", !.cipher = "ok",
                                          !.iv = iv], Undef, Some(signed.ret)),
           rng |-> n + 1]

\* the test written as `if (this.verify)`: the method, never its result
VerifyNotCalled(v) == TRUE

\* the test `if (this.verify(encodedText))` of a verification that returned
VerifyPassed(v) == v.ret

\* Kripke.prototype.decrypt up to its return
InstDecryptCall(I, call) ==
  LET encodedText == call.input
      cipherValues == Split(encodedText)
      iv == B64Decode(cipherValues[2])
      salt == B64Decode(cipherValues[3])
      v == verify(I, encodedText)
      c == [call EXCEPT !.verify = VerifyOutcome(v), !.iv = iv, !.salt = salt]
  IN IF ~IsFunction(call.callback) THEN [call EXCEPT !.threw = ErrNoCallback]
     ELSE IF InvalidCipherText(encodedText)
     THEN [call EXCEPT !.threw = ErrCipherText]
     ELSE IF Len(cipherValues) < 3 THEN Callback(call, ErrEncodedText, NoResult)
     ELSE IF v.threw # Undef THEN Callback(c, v.threw, NoResult)
     ELSE IF ~VerifyPassed(v) THEN Callback(c, ErrHmacFailed, NoResult)
     ELSE IF ~SupportedDigest(I.hmacAlgorithm)
     THEN Callback(c, ErrDigest, NoResult)   \* pbkdf2 throws inside the try
     ELSE [c EXCEPT !.kdf = "pending",
                    !.dk = Pbkdf2(I.key, salt, I.iterations, I.keyLength,
                                  I.hmacAlgorithm)]

\* the decipher step of both decrypt callbacks: [threw, text]
DecipherText(algorithm, dk, iv, cipherField, luck) ==
  LET initErr == CipherInitError(algorithm, dk, iv)
      d == DecipherRun(algorithm, dk, iv, B64Decode(cipherField), luck)
  IN IF initErr # Undef THEN [threw |-> initErr, text |-> NoResult]
     ELSE IF d.threw # Undef THEN [threw |-> d.threw, text |-> NoResult]
     ELSE [threw |-> Undef, text |-> Some(Utf8Decode(d.bytes))]

\* the callback Kripke.prototype.decrypt hands to generateDerivedKey: its
\* err parameter is never read; self is the instance as it is when the
\* callback runs
InstDecryptDone(self, call, outcome, luck) ==
  LET d == DecipherText(self.algorithm, call.dk, call.iv,
                        Split(call.input)[1], luck)
  IN IF outcome = "err"
     THEN Callback([call EXCEPT !.kdf = "err"], Undef, NoResult)
     ELSE Callback([call EXCEPT !.kdf = "ok",
                      !.cipher = IF d.threw # Undef THEN "threw" ELSE "ok"],
                   d.threw, d.text)

\* Kripke.encrypt up to its return: [call, rng, opts]
StaticEncryptCall(options, call, n) ==
  LET o == StaticDefaults(options)
      iv == RandomBytes(n)
      salt == RandomBytes(n + 1)
      c == [call EXCEPT !.iv = iv, !.salt = salt]
  IN IF ~IsFunction(call.callback)
     THEN [call |-> [call EXCEPT !.threw = ErrNoCallback], rng |-> n,
           opts |-> options]
     ELSE IF KeyMissing(options)
     THEN [call |-> [call EXCEPT !.threw = ErrNoKey], rng |-> n, opts |-> options]
     ELSE IF InvalidPlainText(call.input)
     THEN [call |-> [call EXCEPT !.threw = ErrPlainText], rng |-> n,
           opts |-> options]
     ELSE IF ~SupportedDigest(o.hmacAlgorithm)
     THEN [call |-> Callback(c, ErrDigest, NoResult), rng |-> n + 2, opts |-> o]
     ELSE [call |-> [c EXCEPT !.kdf = "pending",
                              !.dk = Pbkdf2(o.key, salt, o.iterations,
                                            StaticKeyLength, o.hmacAlgorithm)],
           rng |-> n + 2, opts |-> o]

\* the callback Kripke.encrypt hands to crypto.pbkdf2; options is the
\* caller's object as it is when the callback runs
StaticEncryptDone(options, call, outcome) ==
  LET initErr == CipherInitError(options.algorithm, call.dk, call.iv)
      cipherText == B64Encode(CipherRun(options.algorithm, call.dk, call.iv,
                                        Utf8Encode(call.input)))
      encodedData == cipherText \o <<Dollar>> \o B64Encode(call.iv)
                       \o <<Dollar>> \o B64Encode(call.salt)
  IN IF outcome = "err"
     THEN Callback([call EXCEPT !.kdf = "err"], ErrKdf, NoResult)
     ELSE IF initErr # Undef
     THEN Callback([call EXCEPT !.kdf = "ok", !.cipher = "threw"],
                   initErr, NoResult)
     ELSE IF ~Truthy(options.hmacKey)
     THEN Callback([call EXCEPT !.kdf = "ok", !.cipher = "ok"],
                   Undef, Some(encodedData))
     ELSE IF ~SupportedDigest(options.hmacAlgorithm)
     THEN Callback([call EXCEPT !.kdf = "ok", !.cipher = "ok"],
                   ErrDigest, Some(encodedData))
     ELSE Callback([call EXCEPT !.kdf = "ok", !.cipher = "ok"], Undef,
                   Some(encodedData \o <<Dollar>>
                          \o B64Encode(Hmac(options.hmacAlgorithm,
                                            options.hmacKey, encodedData))))

\* the verification block of Kripke.decrypt: [err, outcome]
StaticVerify(options, encodedText, cipherValues) ==
  IF VerificationRequired(options.hmacKey, cipherValues)
  THEN IF ~Truthy(options.hmacKey)
       THEN [err |-> ErrKeyRequired, outcome |-> "policy"]
       ELSE IF SignatureMissing(cipherValues)
       THEN [err |-> ErrNoSignature, outcome |-> "policy"]
       ELSE IF ~SupportedDigest(options.hmacAlgorithm)
       THEN [err |-> ErrDigest, outcome |-> "raised"]
       ELSE IF ~compareBuffers(
                  Hmac(options.hmacAlgorithm, options.hmacKey,
                       SignedText(encodedText)),
                  B64Decode(cipherValues[4]))
       THEN [err |-> ErrHmacFailed, outcome |-> "false"]
       ELSE [err |-> Undef, outcome |-> "true"]
  ELSE [err |-> Undef, outcome |-> "skipped"]

\* the key derivation of Kripke.decrypt without its `if (!err)` guard
ProceedsUnguarded(err) == TRUE

\* the test `if (!err)` that guards the key derivation of Kripke.decrypt
Proceeds(err) == err = Undef

\* the closing `if (err) { callback(err); }`
Reported(call, err) ==
  IF err # Undef THEN Callback(call, err, NoResult) ELSE call

\* Kripke.decrypt up to its return: [call, opts]
StaticDecryptCall(options, call) ==
  LET o == StaticDefaults(options)
      encodedText == call.input
      cipherValues == Split(encodedText)
      iv == B64Decode(cipherValues[2])
      salt == B64Decode(cipherValues[3])
      v == StaticVerify(o, encodedText, cipherValues)
      c == [call EXCEPT !.verify = v.outcome, !.iv = iv, !.salt = salt]
      queued == [c EXCEPT !.kdf = "pending",
                          !.dk = Pbkdf2(o.key, salt, o.iterations,
                                        StaticKeyLength, o.hmacAlgorithm)]
  IN IF ~IsFunction(call.callback)
     THEN [call |-> [call EXCEPT !.threw = ErrNoCallback], opts |-> options]
     ELSE IF InvalidCipherText(encodedText)
     THEN [call |-> [call EXCEPT !.threw = ErrCipherText], opts |-> options]
     ELSE IF KeyMissing(options)
     THEN [call |-> [call EXCEPT !.threw = ErrNoKey], opts |-> options]
     ELSE IF Len(cipherValues) < 3      \* new Buffer(undefined, 'base64')
     THEN [call |-> [call EXCEPT !.threw = ErrBufferArg], opts |-> o]
     ELSE IF Proceeds(v.err) /\ ~SupportedDigest(o.hmacAlgorithm)
     THEN [call |-> [c EXCEPT !.threw = ErrDigest], opts |-> o]  \* pbkdf2 throws
     ELSE [call |-> Reported(IF Proceeds(v.err) THEN queued ELSE c, v.err),
           opts |-> o]

\* the callback Kripke.decrypt hands to crypto.pbkdf2
StaticDecryptDone(options, call, outcome, luck) ==
  LET d == DecipherText(options.algorithm, call.dk, call.iv,
                        Split(call.input)[1], luck)
  IN IF outcome = "err"
     THEN Callback([call EXCEPT !.kdf = "err"], ErrKdf, NoResult)
     ELSE Callback([call EXCEPT !.kdf = "ok",
                      !.cipher = IF d.threw # Undef THEN "threw" ELSE "ok"],
                   d.threw, d.text)

(***************************************************************************)
(* A call run from its start to its end with nothing in between            *)
(***************************************************************************)
\* what the caller of c sees of it
Outcome(c) ==
  [threw |-> c.threw, cb |-> c.cb, err |-> c.err, result |-> c.result]

\* k.decrypt(tok, cb) on the instance I, its key derivation ending in outcome
InstDecryptAlone(I, tok, outcome, luck) ==
  LET c == InstDecryptCall(I, NewCall("iDec", tok, "none", NoSaved, I))
  IN IF c.kdf = "pending" THEN InstDecryptDone(I, c, outcome, luck) ELSE c

\* Kripke.decrypt(tok, options, cb), its key derivation ending in outcome
StaticDecryptAlone(options, tok, outcome, luck) ==
  LET r == StaticDecryptCall(options, NewCall("sDec", tok, "none", NoSaved,
                                              StaticConfig(options)))
  IN IF r.call.kdf = "pending"
     THEN StaticDecryptDone(r.opts, r.call, outcome, luck)
     ELSE r.call

(***************************************************************************)
(* The callers                                                             *)
(***************************************************************************)
\* the plaintexts a caller passes: a text, a string holding an unpaired
\* surrogate, the empty string, null and an empty Buffer
PlainInputs == { <<"h", "i">>, <<"uD800">>, <<>>, NullText, EmptyBuffer }

\* the positions of the characters inside the first three fields of tok
FieldPositions(tok) ==
  {i \in 1..Len(tok) :
     /\ tok[i] # Dollar
     /\ Cardinality({j \in 1..i : tok[j] = Dollar}) < 3}

\* the characters that may replace the base64 character ch
Replacements(ch) ==
  {<<"b64", <<"r", 0>> >>, Dollar, Bang, <<"b64", ch[2], "~">>}

\* tok with one character replaced
Tamper(tok, i, ch) == [tok EXCEPT ![i] = ch]

\* tok without its last field
StripLast(tok) == BeforeLastDollar(tok)

\* a token of three base64 fields that no encrypt call produced
Forged ==
  << <<"b64", <<"r", 0>> >>, Dollar, <<"b64", <<"r", 0>> >>, Dollar,
     <<"b64", <<"r", 0>> >> >>

\* the tokens a caller passes to decrypt, with where each came from: crafted
\* ones, the saved token as it is, with fields appended, without its last
\* field, and with one character of its first three fields replaced by
\* another base64 character, a delimiter, a character outside the base64
\* alphabet, or the other spelling of the same character
DecryptInputs ==
  {[tok |-> <<>>, how |-> "crafted"],
   [tok |-> NullToken, how |-> "crafted"],
   [tok |-> NotAString, how |-> "crafted"],
   [tok |-> <<Bang, Dollar, Bang>>, how |-> "crafted"],
   [tok |-> Forged, how |-> "crafted"]}
  \cup
  (IF saved.form = "none" THEN {}
   ELSE {[tok |-> saved.tok, how |-> "asis"],
         [tok |-> saved.tok \o <<Dollar, Bang>>, how |-> "append"],
         [tok |-> saved.tok \o <<Dollar, Bang, Dollar, Bang>>, how |-> "append"],
         [tok |-> StripLast(saved.tok), how |-> "strip"]}
        \cup UNION {{[tok |-> Tamper(saved.tok, i, ch), how |-> "tamper"] :
                       ch \in Replacements(saved.tok[i])} :
                     i \in FieldPositions(saved.tok)})

(***************************************************************************)
(* State machine                                                           *)
(***************************************************************************)
Init ==
  /\ opts \in InitialOptions
  /\ inst = NoInstance
  /\ saved = NoSaved
  /\ inflight = [s \in OneSlot |-> Idle]
  /\ last = Idle
  /\ rng = 0

\* the caller is not inside a callback or an exception handler
Ready == last.kind = "idle"

FreeSlots == {s \in Slots : inflight[s].kind = "idle"}
FirstFree == CHOOSE s \in FreeSlots : \A t \in FreeSlots : s <= t

\* an instance encrypt in flight draws its iv when its key arrives
PendingDraws == Cardinality({s \in Slots : inflight[s].kind = "iEnc"})
CanDraw == rng + PendingDraws + 2 <= MaxDraws * Cardinality(Slots)

StaticInFlight == \E s \in Slots : inflight[s].kind \in {"sEnc", "sDec"}

\* the call returned to its caller: it waits for crypto.pbkdf2, or it is over
Returned(call) ==
  IF call.kdf = "pending"
  THEN /\ FreeSlots # {}
       /\ inflight' = [inflight EXCEPT ![FirstFree] = call]
       /\ last' = Idle
  ELSE /\ last' = call
       /\ UNCHANGED inflight

\* k = new Kripke(options)
Construct ==
  /\ Ready
  /\ IF KeyMissing(opts)
     THEN /\ last' = [NewCall("new", <<>>, "none", NoSaved, NoInstance)
                        EXCEPT !.threw = ErrNoKey]
          /\ UNCHANGED inst
     ELSE /\ inst' = Kripke(opts)
          /\ inst' # inst
          /\ last' = Idle
  /\ UNCHANGED <<opts, saved, inflight, rng>>

\* options.hmacKey = h, while no static call is using the object
SetHmacKey(h) ==
  /\ Ready
  /\ ~StaticInFlight
  /\ opts.hmacKey # h
  /\ opts' = [opts EXCEPT !.hmacKey = h]
  /\ last' = Idle
  /\ UNCHANGED <<inst, saved, inflight, rng>>

\* delete options.hmacKey, while no static call is using the object
DeleteHmacKey ==
  /\ Ready
  /\ ~StaticInFlight
  /\ opts.hmacKey # Undef
  /\ opts' = [opts EXCEPT !.hmacKey = Undef]
  /\ last' = Idle
  /\ UNCHANGED <<inst, saved, inflight, rng>>

\* the call record of a call that passes this callback argument
Passing(call, callback) == [call EXCEPT !.callback = callback]

\* what a caller passes as callback: a function, or nothing
Callbacks == {"function", Undef}

\* the callback passed along with the token in: the callback is left out
\* with crafted tokens and with the saved token as it is
CallbacksWith(in) ==
  IF in.how \in {"crafted", "asis"} THEN Callbacks ELSE {"function"}

\* k.encrypt(p, callback)
InstEncrypt(p, callback) ==
  /\ Ready
  /\ inst # NoInstance
  /\ CanDraw
  /\ LET r == InstEncryptCall(inst, Passing(NewCall("iEnc", p, "none", NoSaved,
                                                    inst), callback), rng)
     IN /\ rng' = r.rng
        /\ Returned(r.call)
  /\ UNCHANGED <<opts, inst, saved>>

\* k.decrypt(tok, callback)
InstDecrypt(in, callback) ==
  /\ Ready
  /\ inst # NoInstance
  /\ Returned(InstDecryptCall(inst, Passing(NewCall("iDec", in.tok, in.how,
                                                    saved, inst), callback)))
  /\ UNCHANGED <<opts, inst, saved, rng>>

\* Kripke.encrypt(p, options, callback)
StaticEncrypt(p, callback) ==
  /\ Ready
  /\ CanDraw
  /\ LET r == StaticEncryptCall(opts, Passing(NewCall("sEnc", p, "none", NoSaved,
                                                      StaticConfig(opts)),
                                              callback), rng)
     IN /\ rng' = r.rng
        /\ opts' = r.opts
        /\ Returned(r.call)
  /\ UNCHANGED <<inst, saved>>

\* Kripke.decrypt(tok, options, callback)
StaticDecrypt(in, callback) ==
  /\ Ready
  /\ LET r == StaticDecryptCall(opts, Passing(NewCall("sDec", in.tok, in.how,
                                                      saved, StaticConfig(opts)),
                                              callback))
     IN /\ opts' = r.opts
        /\ Returned(r.call)
  /\ UNCHANGED <<inst, saved, rng>>

\* the instance the call was made on, as it is now: the caller's instance
\* when its private variables are the call's, with the value its public
\* property `algorithm` has now
Self(call) ==
  IF /\ inst # NoInstance
     /\ [inst EXCEPT !.algorithm = call.cfg.algorithm] = call.cfg
  THEN inst
  ELSE call.cfg

\* the caller's callback keeps the token an encrypt call delivered
Keep(call) ==
  IF call.kind \in {"iEnc", "sEnc"} /\ call.result # NoResult
  THEN [tok |-> call.result[1], p |-> call.input, cfg |-> call.cfg,
        form |-> call.kind]
  ELSE saved

\* the locals of some call in flight, as if salt, iv and the arguments were
\* variables of the module that the latest call overwrites
SharedLocals(s) ==
  IF \E t \in Slots : t # s /\ inflight[t].kind # "idle"
  THEN inflight[CHOOSE t \in Slots : t # s /\ inflight[t].kind # "idle"]
  ELSE inflight[s]

\* the variables the completion callback of the call in slot s closes over:
\* the arguments and locals of that call
Locals(s) == inflight[s]

\* crypto.pbkdf2 completes for the call in slot s and runs its callback
KdfDone(s, outcome, luck) ==
  /\ Ready
  /\ inflight[s].kind # "idle"
  /\ LET call == Locals(s)
         r == CASE call.kind = "iEnc" ->
                     InstEncryptDone(Self(call), call, outcome, rng)
                [] call.kind = "iDec" ->
                     [call |-> InstDecryptDone(Self(call), call, outcome, luck),
                      rng |-> rng]
                [] call.kind = "sEnc" ->
                     [call |-> StaticEncryptDone(opts, call, outcome), rng |-> rng]
                [] OTHER ->
                     [call |-> StaticDecryptDone(opts, call, outcome, luck),
                      rng |-> rng]
     IN /\ last' = r.call
        /\ rng' = r.rng
        /\ saved' = Keep(r.call)
        /\ inflight' = [inflight EXCEPT ![s] = Idle]
  /\ UNCHANGED <<opts, inst>>

\* the caller has dealt with the outcome of the call that ended
CallbackReturns ==
  /\ ~Ready
  /\ last' = Idle
  /\ UNCHANGED <<opts, inst, saved, inflight, rng>>

Next ==
  \/ CallbackReturns
  \/ Construct
  \/ \E h \in HmacKeys : SetHmacKey(h)
  \/ DeleteHmacKey
  \/ \E p \in PlainInputs, callback \in Callbacks : InstEncrypt(p, callback)
  \/ \E in \in DecryptInputs :
       \E callback \in CallbacksWith(in) : InstDecrypt(in, callback)
  \/ \E p \in PlainInputs, callback \in Callbacks : StaticEncrypt(p, callback)
  \/ \E in \in DecryptInputs :
       \E callback \in CallbacksWith(in) : StaticDecrypt(in, callback)
  \/ \E s \in Slots, outcome \in {"ok", "err"}, luck \in {"bad", "garbage"} :
       KdfDone(s, outcome, luck)

Spec == Init /\ [][Next]_vars

(***************************************************************************)
(* Fairness: crypto.pbkdf2 completes every derivation it was handed, and   *)
(* the caller's callback returns.  A derivation that waits while the       *)
(* caller runs other code is disabled only for that moment, hence SF.      *)
(***************************************************************************)
LiveSpec ==
  /\ Spec
  /\ WF_vars(CallbackReturns)
  /\ \A s \in OneSlot :
       SF_vars(\E outcome \in {"ok", "err"}, luck \in {"bad", "garbage"} :
                 KdfDone(s, outcome, luck))

(***************************************************************************)
(* Two calls in flight at once: one instance and one options object, with  *)
(* or without an hmacKey, shared by calls that overlap and complete in any *)
(* order.                                                                  *)
(***************************************************************************)
ConcOptions == {BaseOptions, [BaseOptions EXCEPT !.hmacKey = "H1"]}

ConcPlainInputs == { <<"h", "i">>, <<"?">> }

\* the saved token as it is, and a token no encrypt call produced
ConcDecryptInputs ==
  {[tok |-> Forged, how |-> "crafted"]}
  \cup (IF saved.form = "none" THEN {}
        ELSE {[tok |-> saved.tok, how |-> "asis"]})

ConcInit ==
  /\ opts \in ConcOptions
  /\ inst = NoInstance
  /\ saved = NoSaved
  /\ inflight = [s \in TwoSlots |-> Idle]
  /\ last = Idle
  /\ rng = 0

ConcNext ==
  \/ CallbackReturns
  \/ Construct
  \/ \E p \in ConcPlainInputs : InstEncrypt(p, "function")
  \/ \E in \in ConcDecryptInputs : InstDecrypt(in, "function")
  \/ \E p \in ConcPlainInputs : StaticEncrypt(p, "function")
  \/ \E in \in ConcDecryptInputs : StaticDecrypt(in, "function")
  \/ \E s \in TwoSlots, outcome \in {"ok", "err"}, luck \in {"bad", "garbage"} :
       KdfDone(s, outcome, luck)

ConcSpec == ConcInit /\ [][ConcNext]_vars

(***************************************************************************)
(* compareBuffers on its own, statement by statement (src/index.js:355)    *)
(***************************************************************************)
\* a ^ b and a | b on non-negative integers
RECURSIVE BitXor(_, _)
BitXor(a, b) ==
  IF a = 0 /\ b = 0 THEN 0
  ELSE (((a % 2) + (b % 2)) % 2) + 2 * BitXor(a \div 2, b \div 2)

RECURSIVE BitOr(_, _)
BitOr(a, b) ==
  IF a = 0 /\ b = 0 THEN 0
  ELSE (IF a % 2 = 1 \/ b % 2 = 1 THEN 1 ELSE 0)
         + 2 * BitOr(a \div 2, b \div 2)

\* byte values, and the Buffers of up to MaxLen of them
Bytes == {0, 1, 255}
Buffers == UNION {[1..n -> Bytes] : n \in 0..MaxLen}

\* compareBuffers(buffer1, buffer2) entered: `var i = 0, val = 0`
CompareEntered(buffer1, buffer2) ==
  [kind |-> "compare", buffer1 |-> buffer1, buffer2 |-> buffer2,
   pc |-> "entered", i |-> 0, val |-> 0, ret |-> FALSE]

\* the loop test with an exit at the first differing byte
LoopUntilDifference(i, val, buffer1) == i < Len(buffer1) /\ val = 0

\* the loop test `i < buffer1.length`
LoopContinues(i, val, buffer1) == i < Len(buffer1)

\* `if (buffer1.length !== buffer2.length) { return false; }`; both
\* arguments are Buffers, so the Buffer.isBuffer test before it passes
CompareLengths ==
  /\ last.kind = "compare"
  /\ last.pc = "entered"
  /\ last' = IF Len(last.buffer1) # Len(last.buffer2)
             THEN [last EXCEPT !.pc = "returned", !.ret = FALSE]
             ELSE [last EXCEPT !.pc = "loop"]
  /\ UNCHANGED <<opts, inst, saved, inflight, rng>>

\* one turn of the loop: `val |= buffer1[i] ^ buffer2[i]`, then `i++`
CompareByte ==
  /\ last.kind = "compare"
  /\ last.pc = "loop"
  /\ LoopContinues(last.i, last.val, last.buffer1)
  /\ last' = [last EXCEPT
               !.val = BitOr(@, BitXor(last.buffer1[last.i + 1],
                                       last.buffer2[last.i + 1])),
               !.i = @ + 1]
  /\ UNCHANGED <<opts, inst, saved, inflight, rng>>

\* the loop is left: `return val === 0`
CompareReturn ==
  /\ last.kind = "compare"
  /\ last.pc = "loop"
  /\ ~LoopContinues(last.i, last.val, last.buffer1)
  /\ last' = [last EXCEPT !.pc = "returned", !.ret = (last.val = 0)]
  /\ UNCHANGED <<opts, inst, saved, inflight, rng>>

CompareInit ==
  /\ opts = BaseOptions
  /\ inst = NoInstance
  /\ saved = NoSaved
  /\ inflight = [s \in OneSlot |-> Idle]
  /\ last \in {CompareEntered(buffer1, buffer2) :
                 buffer1 \in Buffers, buffer2 \in Buffers}
  /\ rng = 0

CompareNext == CompareLengths \/ CompareByte \/ CompareReturn

CompareSpec == CompareInit /\ [][CompareNext]_vars

(***************************************************************************)
(* A caller that changes the configuration while a call is in flight       *)
(***************************************************************************)
Algorithms == {"AES-256-CBC", "AES-128-CBC"}

InstanceInFlight == \E s \in Slots : inflight[s].kind \in {"iEnc", "iDec"}

\* options.hmacKey = h, or delete options.hmacKey (h = Undef), between a
\* static call and the completion of its key derivation
SetHmacKeyInFlight(h) ==
  /\ Ready
  /\ StaticInFlight
  /\ opts.hmacKey # h
  /\ opts' = [opts EXCEPT !.hmacKey = h]
  /\ UNCHANGED <<inst, saved, inflight, last, rng>>

\* options.algorithm = a, between a static call and the completion of its
\* key derivation
SetAlgorithmInFlight(a) ==
  /\ Ready
  /\ StaticInFlight
  /\ opts.algorithm # a
  /\ opts' = [opts EXCEPT !.algorithm = a]
  /\ UNCHANGED <<inst, saved, inflight, last, rng>>

\* k.algorithm = a, between an instance call and the completion of its key
\* derivation
SetInstanceAlgorithm(a) ==
  /\ Ready
  /\ InstanceInFlight
  /\ inst.algorithm # a
  /\ inst' = [inst EXCEPT !.algorithm = a]
  /\ UNCHANGED <<opts, saved, inflight, last, rng>>

\* the instance k exists from the start
MutInit ==
  /\ opts \in ConcOptions
  /\ inst = Kripke(opts)
  /\ saved = NoSaved
  /\ inflight = [s \in OneSlot |-> Idle]
  /\ last = Idle
  /\ rng = 0

MutNext ==
  \/ CallbackReturns
  \/ \E h \in {Undef, "H1"} : SetHmacKeyInFlight(h)
  \/ \E a \in Algorithms : SetAlgorithmInFlight(a)
  \/ \E a \in Algorithms : SetInstanceAlgorithm(a)
  \/ \E p \in ConcPlainInputs : InstEncrypt(p, "function")
  \/ \E in \in ConcDecryptInputs : InstDecrypt(in, "function")
  \/ \E p \in ConcPlainInputs : StaticEncrypt(p, "function")
  \/ \E in \in ConcDecryptInputs : StaticDecrypt(in, "function")
  \/ \E s \in OneSlot, outcome \in {"ok", "err"}, luck \in {"bad", "garbage"} :
       KdfDone(s, outcome, luck)

MutSpec == MutInit /\ [][MutNext]_vars

(***************************************************************************)
(* Vocabulary of the properties                                            *)
(***************************************************************************)
\* c is an encrypt (decrypt) call that was given a callback function
\* the caller passed a function as the callback of the call c
HasCallback(c) == c.callback = "function"

\* the plaintexts that are '', null or an empty Buffer, and the tokens that
\* are '', null or not a string
EmptyPlainTexts == {<<>>, NullText, EmptyBuffer}
UnusableTokens == {<<>>, NullToken, NotAString}

IsEncrypt(c) == c.kind \in {"iEnc", "sEnc"} /\ HasCallback(c)
IsDecrypt(c) == c.kind \in {"iDec", "sDec"} /\ HasCallback(c)

\* the decrypt call c is of the same form as the encrypt call that
\* delivered its token
SameForm(c) ==
  \/ c.kind = "iDec" /\ c.origin.form = "iEnc"
  \/ c.kind = "sDec" /\ c.origin.form = "sEnc"

\* c decrypts, under the configuration that produced it, the token an
\* encrypt call of the same form delivered, and its key derivation did not
\* fail
RoundTrip(c) ==
  /\ IsDecrypt(c)
  /\ c.how = "asis"
  /\ SameForm(c)
  /\ c.cfg = c.origin.cfg
  /\ c.kdf # "err"

\* p holds no unpaired surrogate
WellFormed(p) == \A i \in 1..Len(p) : p[i] # "uD800"

\* the callback of c was invoked once with the plaintext p and no error
DeliversPlain(c, p) ==
  /\ c.threw = Undef
  /\ c.cb = 1
  /\ c.err = Undef
  /\ c.result = Some(p)

\* the callback of c was invoked once with the error e and no result
DeliversError(c, e) ==
  /\ c.threw = Undef
  /\ c.cb = 1
  /\ c.err = e
  /\ c.result = NoResult

\* the number of '$'-delimited fields of tok
Fields(tok) == Len(Split(tok))

\* the calls there are: the one that just ended and the ones in flight
Calls == {last} \cup {inflight[s] : s \in Slots}

C2_TamperDetected ==
  ( /\ IsDecrypt(last)
    /\ last.how = "tamper"
    /\ SameForm(last)
    /\ last.cfg = last.origin.cfg
    /\ Truthy(last.origin.cfg.hmacKey) )
  => DeliversError(last, ErrHmacFailed)

\* a signed token whose salt was respelled without changing its bytes is
\* refused by the instance form
C2_Witness ==
  /\ last.kind = "iDec"
  /\ last.how = "tamper"
  /\ last.cfg = last.origin.cfg
  /\ Truthy(last.origin.cfg.hmacKey)
  /\ last.input # last.origin.tok
  /\ B64Decode(Split(last.input)[3]) = B64Decode(Split(last.origin.tok)[3])
  /\ Fields(last.input) = 4
  /\ DeliversError(last, ErrHmacFailed)

(***************************************************************************)
(* C3  Verification is never silently skipped                              *)
(***************************************************************************)
\* C3: decrypt delivers a plaintext only when either (a) no HMAC key is
\* configured and the token carries no 4th field, or (b) an HMAC key is
\* configured, the token carries a signature and the recomputed HMAC matched
\* it; so a token with a 4th field, whatever its number of fields, is
\* refused when the decrypting side has no HMAC key.
C3_VerificationNeverSkipped ==
  (IsDecrypt(last) /\ last.result # NoResult)
  => \/ ~Truthy(last.cfg.hmacKey) /\ Fields(last.input) < 4
     \/ /\ Truthy(last.cfg.hmacKey)
        /\ Fields(last.input) >= 4
        /\ last.verify = "true"

(***************************************************************************)
(* C4  Nothing is derived or deciphered after a failed verification        *)
(***************************************************************************)
\* C4: in every decrypt call, if the required verification returns false or
\* raises a policy error, neither the key derivation nor the decipher step
\* is ever started for that call, and the callback receives an error with an
\* undefined result.
C4_NoCryptoAfterFailedVerification ==
  \A c \in Calls :
    (IsDecrypt(c) /\ c.verify \in {"false", "policy"})
    => /\ c.kdf = "none"
       /\ c.cipher = "none"
       /\ c.dk = <<>>
       /\ c.threw = Undef
       /\ c.cb = 1
       /\ c.err # Undef
       /\ c.result = NoResult

\* the instance form refused a token whose signature did not match
C4_Witness ==
  /\ last.kind = "iDec"
  /\ last.verify = "false"
  /\ last.kdf = "none"
  /\ last.cipher = "none"
  /\ DeliversError(last, ErrHmacFailed)

(***************************************************************************)
(* C5  Signed token, no key on the decrypting side                         *)
(***************************************************************************)
\* C5: a token that was encrypted with an hmacKey (4 fields) and is
\* decrypted by a configuration without an hmacKey delivers the error 'An
\* "hmacKey" is required to verify the HMAC signature of the cipher text'
\* and an undefined result, in the instance and in the static form alike.
C5_KeyRequired ==
  ( /\ IsDecrypt(last)
    /\ last.how = "asis"
    /\ Truthy(last.origin.cfg.hmacKey)
    /\ ~Truthy(last.cfg.hmacKey) )
  => /\ Fields(last.input) = 4
     /\ DeliversError(last, ErrKeyRequired)

C5_Witness ==
  /\ last.kind = "sDec"
  /\ last.how = "asis"
  /\ last.origin.form = "sEnc"
  /\ Truthy(last.origin.cfg.hmacKey)
  /\ ~Truthy(last.cfg.hmacKey)
  /\ DeliversError(last, ErrKeyRequired)

(***************************************************************************)
(* C6  Unsigned token, key on the decrypting side                          *)
(***************************************************************************)
\* C6: a token that was encrypted without an hmacKey (3 fields) and is
\* decrypted by a configuration that has an hmacKey delivers the error 'An
\* "hmacKey" was provided but the cipher text does not include an HMAC
\* signature' and an undefined result, in both forms alike.
C6_SignatureRequired ==
  ( /\ IsDecrypt(last)
    /\ last.how = "asis"
    /\ ~Truthy(last.origin.cfg.hmacKey)
    /\ Truthy(last.cfg.hmacKey) )
  => /\ Fields(last.input) = 3
     /\ DeliversError(last, ErrNoSignature)

C6_Witness ==
  /\ last.kind = "iDec"
  /\ last.how = "asis"
  /\ last.origin.form = "iEnc"
  /\ ~Truthy(last.origin.cfg.hmacKey)
  /\ Truthy(last.cfg.hmacKey)
  /\ DeliversError(last, ErrNoSignature)

(***************************************************************************)
(* C7  Field count of delivered tokens                                     *)
(***************************************************************************)
\* C7: every token delivered by encrypt (instance or static) splits on '$'
\* into exactly 3 fields when no hmacKey is configured and into exactly 4
\* when one is configured; sign returns its input unchanged when no hmacKey
\* is configured.
C7_FieldCount ==
  /\ (IsEncrypt(last) /\ last.result # NoResult)
       => Fields(last.result[1]) = IF Truthy(last.cfg.hmacKey) THEN 4 ELSE 3
  /\ (inst # NoInstance /\ ~Truthy(inst.hmacKey))
       => \A data \in {saved.tok, <<Bang>>, <<Bang, Dollar, Bang>>} :
            sign(inst, data) = [threw |-> Undef, ret |-> data]

C7_Witness ==
  /\ last.kind = "iEnc"
  /\ Truthy(last.cfg.hmacKey)
  /\ last.result # NoResult
  /\ Fields(last.result[1]) = 4

(***************************************************************************)
(* C8  Other field counts                                                  *)
(***************************************************************************)
\* C8: decrypt (instance and static) treats every non-empty token whose
\* number of '$'-delimited fields is not exactly 3 or 4 as malformed: it
\* reports an error, never delivers a plaintext for it, and for fewer than 3
\* fields it does so before any key derivation, HMAC or cipher work.
C8_OtherFieldCountsMalformed ==
  (IsDecrypt(last) /\ last.input # <<>> /\ Fields(last.input) \notin {3, 4})
  => /\ last.result = NoResult
     /\ last.err # Undef \/ last.threw # Undef
     /\ Fields(last.input) < 3
          => /\ last.verify = "none"
             /\ last.kdf = "none"
             /\ last.cipher = "none"

(***************************************************************************)
(* C9  Exactly-once completion                                             *)
(***************************************************************************)
\* C9: every encrypt or decrypt call that does not throw synchronously
\* eventually invokes its callback exactly once: a call that waits for its
\* key has not invoked it yet and does get its key's completion, and a call
\* that is over has invoked it once and only once, on every path.
C9_ExactlyOnce ==
  /\ [](\A s \in Slots :
          inflight[s].kind # "idle"
            => inflight[s].cb = 0 /\ inflight[s].threw = Undef)
  /\ []((IsEncrypt(last) \/ IsDecrypt(last))
          => IF last.threw = Undef THEN last.cb = 1 ELSE last.cb = 0)
  /\ \A s \in OneSlot :
       (inflight[s].kind # "idle") ~> (inflight[s].kind = "idle")

\* a static decrypt whose key derivation failed invoked its callback once
C9_Witness ==
  /\ last.kind = "sDec"
  /\ last.kdf = "err"
  /\ last.threw = Undef
  /\ last.cb = 1

(***************************************************************************)
(* C10  Sole outcome                                                       *)
(***************************************************************************)
\* C10: every callback invocation of encrypt or decrypt carries either a
\* complete result with no error, or an error with an undefined result;
\* never both an error and a token or plaintext, and never neither.
C10_SoleOutcome ==
  ((IsEncrypt(last) \/ IsDecrypt(last)) /\ last.cb >= 1)
  => \/ last.err = Undef /\ last.result # NoResult
     \/ last.err # Undef /\ last.result = NoResult


(***************************************************************************)
(* C11  Key-derivation failures reach the caller                           *)
(***************************************************************************)
\* C11: in all four operations, whenever the key derivation completes with
\* an error, the operation's callback receives that error.
C11_KdfErrorPropagated ==
  ((IsEncrypt(last) \/ IsDecrypt(last)) /\ last.kdf = "err")
  => /\ last.cb = 1
     /\ last.err = ErrKdf

(***************************************************************************)
(* C12  The instance form and the static form                              *)
(***************************************************************************)
\* the decrypt call c decrypts, in the other form and under the options the
\* token was made with, the token an encrypt call delivered
CrossForm(c) ==
  /\ c.how = "asis"
  /\ c.kdf # "err"
  /\ WellFormed(c.origin.p)
  /\ \/ c.kind = "sDec" /\ c.origin.form = "iEnc" /\ c.origin.cfg = Kripke(opts)
     \/ /\ c.kind = "iDec" /\ c.origin.form = "sEnc"
        /\ [c.cfg EXCEPT !.keyLength = StaticKeyLength] = c.origin.cfg

\* C12: for every configuration (every allowed keyLength and algorithm) and
\* token, instance decrypt and static decrypt deliver the same outcome, and
\* a token produced by one form is decrypted by the other under the same
\* options.
C12_FormsEquivalent ==
  /\ CrossForm(last) => DeliversPlain(last, last.origin.p)
  /\ (Truthy(opts.key) /\ inst = Kripke(opts))
       => \A in \in DecryptInputs, outcome \in {"ok", "err"},
             luck \in {"bad", "garbage"} :
            Outcome(InstDecryptAlone(inst, in.tok, outcome, luck))
              = Outcome(StaticDecryptAlone(opts, in.tok, outcome, luck))

(***************************************************************************)
(* C13  The configuration is read-only                                     *)
(***************************************************************************)
\* a step of an encrypt or decrypt call: the call itself or its completion
CallStep ==
  \/ \E p \in PlainInputs, callback \in Callbacks : InstEncrypt(p, callback)
  \/ \E in \in DecryptInputs :
       \E callback \in CallbacksWith(in) : InstDecrypt(in, callback)
  \/ \E p \in PlainInputs, callback \in Callbacks : StaticEncrypt(p, callback)
  \/ \E in \in DecryptInputs :
       \E callback \in CallbacksWith(in) : StaticDecrypt(in, callback)
  \/ \E s \in Slots, outcome \in {"ok", "err"}, luck \in {"bad", "garbage"} :
       KdfDone(s, outcome, luck)

\* C13: an encrypt or decrypt call (static or instance) leaves the caller's
\* options object and the instance's configuration exactly as they were
\* before the call.
C13_ConfigurationReadOnly ==
  [][CallStep => (opts' = opts /\ inst' = inst)]_vars

(***************************************************************************)
(* C14  Independence under interleaving                                    *)
(***************************************************************************)
\* the options object a static call was given, read back from the
\* configuration it started with
OptionsOf(cfg) ==
  [key |-> cfg.key, hmacKey |-> cfg.hmacKey, algorithm |-> cfg.algorithm,
   hmacAlgorithm |-> cfg.hmacAlgorithm, iterations |-> cfg.iterations,
   keyLength |-> 0]

\* what decrypting tok alone delivers, in the form and under the
\* configuration of the call c
DecryptsAlone(c, tok, outcome, luck) ==
  IF c.kind \in {"iEnc", "iDec"}
  THEN Outcome(InstDecryptAlone(c.cfg, tok, outcome, luck))
  ELSE Outcome(StaticDecryptAlone(OptionsOf(c.cfg), tok, outcome, luck))

\* d is how the call c, in flight in slot s, ended, and it is how c ends when
\* it runs alone: a decrypt call delivers what decrypting its token alone
\* delivers; an encrypt call delivers the key derivation's error, or a token
\* that carries its own salt and an iv no other call in flight holds, and
\* that decrypts, alone, to its own plaintext
EndsAsAlone(c, d, s) ==
  /\ d.kind = c.kind
  /\ d.input = c.input
  /\ d.cfg = c.cfg
  /\ d.threw = Undef
  /\ d.cb = 1
  /\ IF c.kind \in {"iDec", "sDec"}
     THEN Outcome(d) \in {DecryptsAlone(c, c.input, outcome, luck) :
                            outcome \in {"ok", "err"},
                            luck \in {"bad", "garbage"}}
     ELSE \/ d.err = ErrKdf /\ d.result = NoResult
          \/ /\ d.err = Undef
             /\ d.result # NoResult
             /\ Fields(d.result[1]) >= 3
             /\ Split(d.result[1])[3] = B64Encode(c.salt)
             /\ \A t \in Slots \ {s} :
                  B64Decode(Split(d.result[1])[2])
                    \notin {inflight[t].salt, inflight[t].iv}
             /\ DecryptsAlone(c, d.result[1], "ok", "bad")
                  = [threw |-> Undef, cb |-> 1, err |-> Undef,
                     result |-> Some(c.input)]

\* C14: when several encrypt and decrypt calls on the same instance, or
\* static calls sharing the same options object, are in flight at once and
\* their key derivations complete in any order, each call delivers the same
\* outcome it would deliver if run alone; no call uses the salt, iv,
\* derived key, ciphertext or error of another call.
C14_IndependentCalls ==
  [][\A s \in TwoSlots :
       (inflight[s].kind # "idle" /\ inflight'[s].kind = "idle")
         => EndsAsAlone(inflight[s], last', s)]_vars

\* the call made second completed first, with a token, while the call made
\* first is still waiting for its key
C14_Witness ==
  /\ last.kind = "iEnc"
  /\ last.salt = RandomBytes(2)
  /\ last.result # NoResult
  /\ inflight[1].kind = "sEnc"
  /\ inflight[1].salt = RandomBytes(1)

(***************************************************************************)
(* C15  Invalid input is rejected synchronously                            *)
(***************************************************************************)
\* the call c threw e before it did anything: no callback, no key derivation
Rejected(c, e) ==
  /\ c.threw = e
  /\ c.cb = 0
  /\ c.kdf = "none"
  /\ c.salt = <<>>
  /\ c.dk = <<>>

\* C15, as stated: encrypt called with a plaintext that is '', null or an
\* empty buffer throws 'Invalid plain text data', and decrypt called with a
\* token that is '', null or not a string throws 'Invalid cipher text'; the
\* callback is never invoked and the key derivation never called.
C15_InvalidInputThrows ==
  /\ (IsEncrypt(last) /\ last.input \in EmptyPlainTexts)
       => Rejected(last, ErrPlainText)
  /\ (IsDecrypt(last) /\ last.input \in UnusableTokens)
       => Rejected(last, ErrCipherText)

\* C15, with the order of the static encrypt's checks: the same, for the
\* instance form, for static decrypt, and for static encrypt when
\* options.key is present.
C15_InvalidInputThrowsGivenKey ==
  /\ (IsEncrypt(last) /\ last.input \in EmptyPlainTexts
        /\ (last.kind = "sEnc" => opts.key # Undef))
       => Rejected(last, ErrPlainText)
  /\ (IsDecrypt(last) /\ last.input \in UnusableTokens)
       => Rejected(last, ErrCipherText)
  /\ \A s \in Slots :
       /\ IsEncrypt(inflight[s]) => inflight[s].input \notin EmptyPlainTexts
       /\ IsDecrypt(inflight[s]) => inflight[s].input \notin UnusableTokens

\* static decrypt refused a token that is not a string although the options
\* hold no key
C15_Witness ==
  /\ last.kind = "sDec"
  /\ HasCallback(last)
  /\ last.input = NotAString
  /\ opts.key = Undef
  /\ Rejected(last, ErrCipherText)

(***************************************************************************)
(* C16  A missing key                                                      *)
(***************************************************************************)
\* C16: constructing an instance without options.key, and calling static
\* encrypt or static decrypt (with an otherwise valid plaintext or token and
\* a callback) without options.key, throws 'You must provide a "key"'; no
\* instance is produced, the callback is never invoked and no key
\* derivation is started.
C16_MissingKeyThrows ==
  opts.key = Undef
  => /\ inst = NoInstance
     /\ \A s \in Slots : inflight[s].kind = "idle"
     /\ last.kind = "new" => Rejected(last, ErrNoKey)
     /\ (IsEncrypt(last) /\ last.input \notin EmptyPlainTexts)
          => Rejected(last, ErrNoKey)
     /\ (IsDecrypt(last) /\ last.input \notin UnusableTokens)
          => Rejected(last, ErrNoKey)

C16_Witness ==
  /\ opts.key = Undef
  /\ last.kind = "sDec"
  /\ HasCallback(last)
  /\ last.input = Forged
  /\ Rejected(last, ErrNoKey)

(***************************************************************************)
(* C17  The callback check comes first                                     *)
(***************************************************************************)
\* C17: in all four entry points a call whose callback argument is not a
\* function throws 'No callback provided' whatever the other arguments are
\* (missing, invalid or valid), before the plaintext, token, options or key
\* are examined.
C17_CallbackCheckFirst ==
  \A c \in Calls :
    (c.kind \in {"iEnc", "iDec", "sEnc", "sDec"} /\ ~HasCallback(c))
    => /\ c = last
       /\ Rejected(c, ErrNoCallback)
       /\ c.verify = "none"
       /\ c.iv = <<>>

\* static encrypt without a callback, without a key and without a plaintext
C17_Witness ==
  /\ last.kind = "sEnc"
  /\ ~HasCallback(last)
  /\ opts.key = Undef
  /\ last.input \in EmptyPlainTexts
  /\ Rejected(last, ErrNoCallback)

(***************************************************************************)
(* C18  Stage ordering                                                     *)
(***************************************************************************)
\* the call c has ended: it threw, or its callback was invoked
Ended(c) == c.threw # Undef \/ c.cb >= 1

\* the stages the call c has run so far were run in their order: a decrypt
\* call verifies only a token it could parse, derives only after a
\* verification that passed or was not required, deciphers only with a
\* derived key; an encrypt call ciphers only with a derived key and hands
\* out (signs) only a token it ciphered; a call ends once, by a throw or by
\* one invocation of its callback, and never while its key is being derived
StagesInOrder(c) ==
  /\ IsDecrypt(c) =>
       /\ c.verify # "none" =>
            c.input \notin UnusableTokens /\ Fields(c.input) >= 3
       /\ c.kdf # "none" => c.verify \in {"skipped", "true"}
  /\ (IsDecrypt(c) \/ IsEncrypt(c)) =>
       /\ c.cipher # "none" => c.kdf = "ok"
       /\ c.result # NoResult => c.cipher = "ok"
       /\ c.cb <= 1
       /\ ~(c.threw # Undef /\ c.cb >= 1)
       /\ Ended(c) => c.kdf # "pending"

\* the call c waits for its key: no later stage has run, and it has not
\* ended
Deriving(c) ==
  c.kdf = "pending" /\ c.cipher = "none" /\ ~Ended(c)

\* d is the call c after the completion of its key derivation: the same
\* call with the verification it had, its derivation over, and ended
Completed(c, d) ==
  /\ d.kind = c.kind
  /\ d.input = c.input
  /\ d.verify = c.verify
  /\ d.kdf \in {"ok", "err"}
  /\ d.cb = 1

\* C18: every decrypt call passes through the stages PARSE, VERIFY, DERIVE,
\* DECIPHER in that order, each at most once, and ends in exactly one
\* terminal state after which no further stage of that call runs; every
\* encrypt call runs derive, then cipher, then sign, and the cipher step
\* never starts before the key derivation of the same call has completed.
C18_StageOrdering ==
  [][/\ \A c \in {last', inflight'[1]} : StagesInOrder(c)
     /\ inflight'[1].kind # "idle" => Deriving(inflight'[1])
     /\ last'.kind # "idle" => Ended(last')
     /\ inflight[1].kind # "idle" =>
          \/ inflight'[1] = inflight[1]
          \/ inflight'[1] = Idle /\ Completed(inflight[1], last')
     /\ last.kind # "idle" => last' = Idle]_vars

\* a static decrypt call went through all four stages and delivered a
\* plaintext
C18_Witness ==
  /\ last.kind = "sDec"
  /\ last.verify = "true"
  /\ last.kdf = "ok"
  /\ last.cipher = "ok"
  /\ last.cb = 1
  /\ last.result # NoResult

(***************************************************************************)
(* C19  Signature coverage                                                 *)
(***************************************************************************)
\* the token's first three fields joined by '$'
FirstThreeFields(tok) ==
  LET parts == Split(tok)
  IN parts[1] \o <<Dollar>> \o parts[2] \o <<Dollar>> \o parts[3]

\* the decrypt call c reached the comparison of the HMACs
ReachedComparison(c) == IsDecrypt(c) /\ c.verify \in {"true", "false"}

\* the encrypt call c delivered a signed token
DeliveredSigned(c) ==
  IsEncrypt(c) /\ c.result # NoResult /\ Truthy(c.cfg.hmacKey)

\* the signature the encrypt call c appended is the HMAC of the token's
\* first three fields
SignedOverThree(c) ==
  LET tok == c.result[1]
  IN /\ Fields(tok) = 4
     /\ B64Decode(Split(tok)[4])
          = Hmac(c.cfg.hmacAlgorithm, c.cfg.hmacKey, FirstThreeFields(tok))

\* the token the encrypt call c signed with its hmacKey is rejected under
\* the hmacKey "H2", in the form of c, whatever the key derivation would do
RejectedUnderOtherKey(c) ==
  \A outcome \in {"ok", "err"}, luck \in {"bad", "garbage"} :
    LET tok == c.result[1]
        d == IF c.kind = "iEnc"
             THEN InstDecryptAlone([c.cfg EXCEPT !.hmacKey = "H2"], tok,
                                   outcome, luck)
             ELSE StaticDecryptAlone(
                    [OptionsOf(c.cfg) EXCEPT !.hmacKey = "H2"], tok,
                    outcome, luck)
    IN /\ c.cfg.hmacKey # "H2"
       /\ d.verify = "false"
       /\ d.kdf = "none"
       /\ Outcome(d) = [threw |-> Undef, cb |-> 1, err |-> ErrHmacFailed,
                        result |-> NoResult]

\* C19: the HMAC that encrypt appends and the HMAC that verification
\* recomputes are both taken over exactly the string formed by the token's
\* first three fields joined by '$', for every token that reaches the HMAC
\* comparison; consequently a token signed with hmacKey K1 is rejected with
\* 'HMAC signature verification failed' when decrypted with a different
\* hmacKey K2.
C19_SignatureCoverage ==
  \A c \in Calls :
    /\ DeliveredSigned(c) => SignedOverThree(c) /\ RejectedUnderOtherKey(c)
    /\ ReachedComparison(c) =>
         SignedText(c.input) = FirstThreeFields(c.input)

(***************************************************************************)
(* C20  compareBuffers                                                     *)
(***************************************************************************)
\* a and b have the same length and the same byte at every index
SameBytes(a, b) ==
  Len(a) = Len(b) /\ \A k \in 1..Len(a) : a[k] = b[k]

\* C20: compareBuffers(a, b) returns true if and only if a and b have the
\* same length and the same byte at every index; a length mismatch returns
\* false, and when the lengths are equal the loop visits every index before
\* returning (it does not stop at the first differing byte).  The result is
\* also the one the verification of the two decrypt forms works with.
C20_CompareBuffers ==
  (last.kind = "compare" /\ last.pc = "returned") =>
    /\ last.ret = SameBytes(last.buffer1, last.buffer2)
    /\ Len(last.buffer1) # Len(last.buffer2) => ~last.ret /\ last.i = 0
    /\ Len(last.buffer1) = Len(last.buffer2) => last.i = Len(last.buffer1)
    /\ last.ret = compareBuffers(last.buffer1, last.buffer2)

\* two buffers of the same length that differ in their first byte only were
\* compared to the end
C20_Witness ==
  /\ last.kind = "compare"
  /\ last.pc = "returned"
  /\ last.buffer1 = <<0, 1>>
  /\ last.buffer2 = <<255, 1>>
  /\ last.i = 2
  /\ ~last.ret

(***************************************************************************)
(* C21  Freshness                                                          *)
(***************************************************************************)
\* the iv and the salt a token carries
TokenIv(tok) == B64Decode(Split(tok)[2])
TokenSalt(tok) == B64Decode(Split(tok)[3])

\* the random values the encrypt call c holds so far
ValuesOf(c) ==
  IF c.kind \in {"iEnc", "sEnc"} THEN {c.salt, c.iv} \ {<<>>} ELSE {}

\* the random values of the token the caller stored
ValuesOfSaved(sv) ==
  IF sv.form = "none" THEN {} ELSE {TokenIv(sv.tok), TokenSalt(sv.tok)}

\* the encrypt call c delivered a token
Delivered(c) == IsEncrypt(c) /\ c.result # NoResult

\* C21: every encrypt call (instance or static) draws a new salt and a new
\* iv and uses values drawn by no earlier call: with a random source that
\* never repeats a value, the token a call delivers differs in its iv field
\* and in its salt field from the token delivered before it, also for the
\* same plaintext and configuration, and the calls in flight hold values
\* that differ from each other's and from those of the delivered token.
C21_Freshness ==
  [][/\ (Delivered(last') /\ ~Delivered(last) /\ saved.form # "none") =>
          /\ TokenIv(last'.result[1]) # TokenSalt(last'.result[1])
          /\ TokenIv(last'.result[1]) = last'.iv
          /\ TokenSalt(last'.result[1]) = last'.salt
          /\ TokenIv(last'.result[1]) # TokenIv(saved.tok)
          /\ TokenSalt(last'.result[1]) # TokenSalt(saved.tok)
          /\ ValuesOf(last') \cap ValuesOfSaved(saved) = {}
     /\ \A s \in TwoSlots :
          /\ ValuesOf(inflight'[s]) \cap ValuesOfSaved(saved') = {}
          /\ inflight'[s].kind = "sEnc" =>
               inflight'[s].salt # inflight'[s].iv
          /\ \A t \in TwoSlots \ {s} :
               ValuesOf(inflight'[s]) \cap ValuesOf(inflight'[t]) = {}]_vars

\* a second static encrypt of the same plaintext under the same
\* configuration has drawn its iv and salt while the caller holds the token
\* of the first
C21_Witness ==
  /\ saved.form = "sEnc"
  /\ \E s \in TwoSlots :
       /\ inflight[s].kind = "sEnc"
       /\ inflight[s].input = saved.p
       /\ inflight[s].cfg = saved.cfg
       /\ inflight[s].salt # <<>>
       /\ inflight[s].iv # <<>>

(***************************************************************************)
(* C22  Call-time snapshot of the configuration                            *)
(***************************************************************************)
\* how the call c, waiting for its key, ends when its completion works with
\* the values the configuration held when the call was made; n is the
\* random source's position
EndsWithCallTimeValues(c, n) ==
  LET Outcomes == {"ok", "err"}
      Lucks == {"bad", "garbage"}
  IN CASE c.kind = "iEnc" ->
            {InstEncryptDone(c.cfg, c, outcome, n).call : outcome \in Outcomes}
       [] c.kind = "iDec" ->
            {InstDecryptDone(c.cfg, c, outcome, luck) :
               outcome \in Outcomes, luck \in Lucks}
       [] c.kind = "sEnc" ->
            {StaticEncryptDone(OptionsOf(c.cfg), c, outcome) :
               outcome \in Outcomes}
       [] OTHER ->
            {StaticDecryptDone(OptionsOf(c.cfg), c, outcome, luck) :
               outcome \in Outcomes, luck \in Lucks}

\* C22: the outcome of a static encrypt or decrypt call is determined by
\* the values the options object held when the call was made, and that of an
\* instance call by the instance's algorithm at call time; if the caller
\* changes them after the call returned and before the key derivation
\* completes, the delivered token or plaintext is still the one for the
\* call-time values.
C22_CallTimeSnapshot ==
  [][\A s \in OneSlot :
       (inflight[s].kind # "idle" /\ inflight'[s].kind = "idle")
         => last' \in EndsWithCallTimeValues(inflight[s], rng)]_vars

(***************************************************************************)
(* C23  Construction-time snapshot                                         *)
(***************************************************************************)
\* the instance call c behaves by the hmacKey of its instance: its token is
\* signed with it exactly when the instance has one, and a token without a
\* signature is refused when the instance has one
BehavesAsConstructed(c) ==
  /\ (c.kind = "iEnc" /\ HasCallback(c) /\ c.result # NoResult) =>
       IF c.cfg.hmacKey # Undef
       THEN /\ Fields(c.result[1]) = 4
            /\ B64Decode(Split(c.result[1])[4])
                 = Hmac(c.cfg.hmacAlgorithm, c.cfg.hmacKey,
                        FirstThreeFields(c.result[1]))
       ELSE Fields(c.result[1]) = 3
  /\ (/\ c.kind = "iDec" /\ HasCallback(c)
      /\ c.input \notin UnusableTokens
      /\ Fields(c.input) = 3
      /\ c.cfg.hmacKey # Undef) =>
       /\ c.err = ErrNoSignature
       /\ c.result = NoResult
       /\ c.kdf = "none"

\* C23: an instance keeps the key, hmacKey, iterations, hmacAlgorithm,
\* keyLength and algorithm it was constructed with; a step that adds, changes
\* or deletes fields of the options object leaves the instance as it is, a
\* call on the instance works from its start to its end with the values the
\* instance had when the call was made, and an instance
\* built with an hmacKey keeps signing and keeps demanding a signature
\* whatever the options object holds by then.
C23_ConstructionSnapshot ==
  [][/\ (inst # NoInstance /\ opts' # opts) => inst' = inst
     /\ \A c \in {last', inflight'[1]} :
          (c.kind \in {"iEnc", "iDec"} /\ inflight[1].kind = "idle") =>
            inst # NoInstance /\ c.cfg = inst
     /\ (inflight[1].kind \in {"iEnc", "iDec"} /\ inflight'[1].kind = "idle")
          => last'.cfg = inflight[1].cfg
     /\ last'.kind \in {"iEnc", "iDec"} => BehavesAsConstructed(last')]_vars

\* the instance was built with an hmacKey, options.hmacKey was deleted, and
\* the instance still delivered a signed token
C23_Witness ==
  /\ last.kind = "iEnc"
  /\ last.cfg.hmacKey = "H1"
  /\ inst.hmacKey = "H1"
  /\ opts.hmacKey = Undef
  /\ last.result # NoResult
  /\ Fields(last.result[1]) = 4

====
